---------------------------- MODULE Spec2Model ----------------------------
(***************************************************************************)
(* Model of arduboy_emu_app.c: the key debouncer (key_states, the LVGL     *)
(* release timer), the luminance map integration, the display scaling and  *)
(* the renderer's life cycle (init, render, cleanup).                      *)
(*                                                                         *)
(* Time is counted in milliseconds and advances in steps of TimeStep.      *)
(* The luminance map is modelled on a panel of MapWidth columns and        *)
(* MapPages pages of 8 rows (the code's OLED_WIDTH and OLED_HEIGHT / 8),   *)
(* with the loop and pointer arithmetic of the code kept as written.       *)
(***************************************************************************)
EXTENDS Integers, Sequences, FiniteSets, TLC

(* ------------------------------ constants ------------------------------ *)
KEY_UP == 17
KEY_LEFT == 20
KEY_DOWN == 18
KEY_RIGHT == 19
KEY_ENTER == 10
KEY_ESC == 27
KEY_Z == 122
KEY_X == 120
OLED_WIDTH == 128
OLED_HEIGHT == 64
MAX_CANVAS_SIZE == OLED_WIDTH * OLED_HEIGHT * 8
BUTTON_COUNT == 6
RELEASE_PERIOD == 100
INT32_MAX == 2147483647
NULL == 0

(* -------------------------------- bounds ------------------------------- *)
TimeStep == 50
MaxTimers == 2
MaxPressCount == 2
MapWidth == 2
MapPages == 2
MaxStreak == 3

ClockCap == RELEASE_PERIOD + TimeStep
Buttons == 0 .. (BUTTON_COUNT - 1)
MappedKeys == {KEY_UP, KEY_DOWN, KEY_LEFT, KEY_RIGHT, KEY_ENTER, KEY_Z, KEY_ESC, KEY_X}
UnmappedKeys == {0, 13, 121}
Keys == MappedKeys \cup UnmappedKeys

Min(a, b) == IF a < b THEN a ELSE b

VARIABLES
    key_states,       \* bool key_states[BUTTON_COUNT]
    g_release_timer,  \* NULL or the handle (index into timers) of the release timer
    timers,           \* the host's timer list: ms elapsed since each timer's last_run
    emitted,          \* the arduboy_avr_button_event calls made by the last operation
    lastOp,           \* the last operation: "none", "key", "timer", "tick", ...
    path,             \* the branch the last key event took
    arg_key,          \* the key code of the last key event
    sincePress,       \* ms since the most recent press signal
    sinceKey,         \* ms since the most recent key event for a mapped button
    firstAge,         \* ms since the first press signal after all buttons were Released
    keyed,            \* per button: whether a key event arrived since the last timer firing
    pressCount,       \* per button: press signals since the last timer firing (saturating)
    lastWasPress,     \* per button: whether the last signal sent for it was a press
    alternates,       \* whether every signal so far differed from the one before it for its button
    luma_pixmap,      \* g_ctx.luma_pixmap
    visits,           \* per cell: writes made by the last ssd1306_gl_update_lumamap call
    arg_vram,         \* the vram of the last update call
    arg_decay,        \* its luma_decay
    arg_inc,          \* its luma_inc
    streak,           \* update calls in a row with these arguments (saturating, 0: none yet)
    screen_w,         \* lv_obj_get_width(lv_screen_active())
    screen_h,         \* lv_obj_get_height(lv_screen_active())
    geom,             \* g_ctx.scale, offset_x, offset_y, canvas_width, canvas_height
    canvas,           \* g_ctx.canvas: NULL or a canvas object
    initialized,      \* g_ctx.initialized
    fellBack,         \* whether the last calculate_display_scaling took the fallback
    calc_w,           \* the screen_width of the last calculate_display_scaling (-1: none yet)
    calc_h,           \* its screen_height
    n_canvas,         \* canvas objects alive on the screen
    canvas_px,        \* the canvas object's size and pixels (size 0: no canvas)
    n_writes,         \* lv_canvas_set_px calls made by the last ssd1306_gl_render
    oob_writes        \* those of them whose coordinate was outside the canvas

inputVars == <<key_states, g_release_timer, timers, emitted, path, arg_key,
               sincePress, sinceKey, firstAge, keyed, pressCount, lastWasPress, alternates>>
lumaVars == <<luma_pixmap, visits, arg_vram, arg_decay, arg_inc, streak>>
geomVars == <<screen_w, screen_h, geom, canvas, initialized, fellBack, calc_w, calc_h,
              n_canvas, canvas_px, n_writes, oob_writes>>
vars == <<lastOp, inputVars, lumaVars, geomVars>>

(* ============================ input debouncer =========================== *)

Press(b) == [btn |-> b, pressed |-> TRUE]
Release(b) == [btn |-> b, pressed |-> FALSE]

\* key_to_button_e with default: return 0
key_to_button_e_default0(key) ==
    CASE key = KEY_UP -> 0
      [] key = KEY_DOWN -> 1
      [] key = KEY_LEFT -> 2
      [] key = KEY_RIGHT -> 3
      [] key \in {KEY_ENTER, KEY_Z} -> 4
      [] key \in {KEY_ESC, KEY_X} -> 5
      [] OTHER -> 0

key_to_button_e(key) ==
    CASE key = KEY_UP -> 0
      [] key = KEY_DOWN -> 1
      [] key = KEY_LEFT -> 2
      [] key = KEY_RIGHT -> 3
      [] key \in {KEY_ENTER, KEY_Z} -> 4
      [] key \in {KEY_ESC, KEY_X} -> 5
      [] OTHER -> -1

ValidButton(button_index) == button_index >= 0 /\ button_index < BUTTON_COUNT

\* the held test dropped: every mapped key event presses
IsNewPress_always(states, button_index) == TRUE

\* if (!key_states[button_index])
IsNewPress(states, button_index) == ~states[button_index]

\* lv_timer_create(cb, period, NULL): a new periodic timer, last_run = now
lv_timer_create(tms) == Append(tms, 0)

\* lv_timer_reset(timer): last_run = now
lv_timer_reset(tms, t) == [tms EXCEPT ![t] = 0]

\* the handle of the created timer not stored in g_release_timer
ArmTimer_lose_handle(tmr, tms) ==
    IF tmr = NULL
    THEN [g_release_timer |-> NULL, timers |-> lv_timer_create(tms)]
    ELSE [g_release_timer |-> tmr, timers |-> lv_timer_reset(tms, tmr)]

\* the NULL test dropped: every press creates a timer
ArmTimer_always_create(tmr, tms) ==
    [g_release_timer |-> Len(tms) + 1, timers |-> lv_timer_create(tms)]

\* if (g_release_timer == NULL) create, else reset
ArmTimer(tmr, tms) ==
    IF tmr = NULL
    THEN [g_release_timer |-> Len(tms) + 1, timers |-> lv_timer_create(tms)]
    ELSE [g_release_timer |-> tmr, timers |-> lv_timer_reset(tms, tmr)]

RECURSIVE ReleaseLoop(_, _, _, _)
\* for (i = from; i < upto; i++) if (key_states[i]) { event(i, false); key_states[i] = false; }
ReleaseLoop(states, out, i, upto) ==
    IF i >= upto THEN [key_states |-> states, emitted |-> out]
    ELSE IF states[i]
         THEN ReleaseLoop([states EXCEPT ![i] = FALSE], Append(out, Release(i)), i + 1, upto)
         ELSE ReleaseLoop(states, out, i + 1, upto)

\* the callback without key_states[i] = false
key_release_timer_cb_keep_state(states) ==
    [key_states |-> states, emitted |-> ReleaseLoop(states, <<>>, 0, BUTTON_COUNT).emitted]

\* the loop stopping one button short: i < BUTTON_COUNT - 1
key_release_timer_cb_short(states) == ReleaseLoop(states, <<>>, 0, BUTTON_COUNT - 1)

key_release_timer_cb(states) == ReleaseLoop(states, <<>>, 0, BUTTON_COUNT)

Sat(n, cap) == Min(n, cap)

RECURSIVE SignalLog(_, _, _)
\* the signals of one operation, in order, entered in the per-button record of
\* the last signal; a button with no signal yet counts as released
SignalLog(last, ok, out) ==
    IF out = <<>> THEN [lastWasPress |-> last, alternates |-> ok]
    ELSE LET sig == Head(out) IN
         SignalLog([last EXCEPT ![sig.btn] = sig.pressed],
                   ok /\ (sig.pressed # last[sig.btn]), Tail(out))

\* lv_arduboy_emu_app_handle_input(key)
KeyEvent(key) ==
    LET button_index == key_to_button_e(key) IN
    /\ lastOp' = "key"
    /\ arg_key' = key
    /\ IF ValidButton(button_index)
       THEN /\ sinceKey' = 0
            /\ keyed' = [keyed EXCEPT ![button_index] = TRUE]
            /\ IF IsNewPress(key_states, button_index)
               THEN LET armed == ArmTimer(g_release_timer, timers) IN
                    /\ Len(armed.timers) <= MaxTimers
                    /\ emitted' = <<Press(button_index)>>
                    /\ key_states' = [key_states EXCEPT ![button_index] = TRUE]
                    /\ g_release_timer' = armed.g_release_timer
                    /\ timers' = armed.timers
                    /\ path' = IF Len(armed.timers) > Len(timers) THEN "create" ELSE "reset"
                    /\ sincePress' = 0
                    /\ firstAge' = IF \A b \in Buttons : ~key_states[b] THEN 0 ELSE firstAge
                    /\ pressCount' = [pressCount EXCEPT ![button_index] = Sat(@ + 1, MaxPressCount)]
                    /\ LET lg == SignalLog(lastWasPress, alternates, <<Press(button_index)>>) IN
                       /\ lastWasPress' = lg.lastWasPress
                       /\ alternates' = lg.alternates
               ELSE /\ emitted' = <<>>
                    /\ path' = "held"
                    /\ UNCHANGED <<key_states, g_release_timer, timers, sincePress,
                                   firstAge, pressCount, lastWasPress, alternates>>
       ELSE /\ emitted' = <<>>
            /\ path' = "unmapped"
            /\ UNCHANGED <<key_states, g_release_timer, timers, sincePress, sinceKey,
                           firstAge, keyed, pressCount, lastWasPress, alternates>>
    /\ UNCHANGED <<lumaVars, geomVars>>

\* the host's timer handler runs timer t once its period has elapsed
TimerFire(t) ==
    /\ t \in 1 .. Len(timers)
    /\ timers[t] >= RELEASE_PERIOD
    /\ LET r == key_release_timer_cb(key_states) IN
       /\ key_states' = r.key_states
       /\ emitted' = r.emitted
       /\ LET lg == SignalLog(lastWasPress, alternates, r.emitted) IN
          /\ lastWasPress' = lg.lastWasPress
          /\ alternates' = lg.alternates
    /\ timers' = [timers EXCEPT ![t] = 0]
    /\ lastOp' = "timer"
    /\ path' = "none"
    /\ keyed' = [b \in Buttons |-> FALSE]
    /\ pressCount' = [b \in Buttons |-> 0]
    /\ UNCHANGED <<g_release_timer, arg_key, sincePress, sinceKey, firstAge>>
    /\ UNCHANGED <<lumaVars, geomVars>>

\* time passes
Tick ==
    /\ timers' = [t \in 1 .. Len(timers) |-> Sat(timers[t] + TimeStep, ClockCap)]
    /\ sincePress' = Sat(sincePress + TimeStep, ClockCap)
    /\ sinceKey' = Sat(sinceKey + TimeStep, ClockCap)
    /\ firstAge' = Sat(firstAge + TimeStep, ClockCap)
    /\ lastOp' = "tick"
    /\ emitted' = <<>>
    /\ path' = "none"
    /\ UNCHANGED <<key_states, g_release_timer, arg_key, keyed, pressCount, lastWasPress,
                   alternates>>
    /\ UNCHANGED <<lumaVars, geomVars>>

(* ============================ luminance map ============================ *)

Int16(x) == ((x + 32768) % 65536) - 32768
U8(x) == x % 256

\* the bit taken from the top: px_col & 0x80
PixelLit_msb(px_col) == px_col >= 128

\* px_col & 0x1
PixelLit(px_col) == px_col % 2 = 1

\* the clamp without its lower branch
ClampLuma_no_lower(luma) == IF luma > 255 THEN 255 ELSE luma

\* the clamp without its upper branch
ClampLuma_no_upper(luma) == IF luma < 0 THEN 0 ELSE luma

\* if (luma < 0) luma = 0; else if (luma > 255) luma = 255;
ClampLuma(luma) == IF luma < 0 THEN 0 ELSE IF luma > 255 THEN 255 ELSE luma

\* The locals of ssd1306_gl_update_lumamap are kept in one record: pix (the
\* pixmap), vis (writes per cell), column_ptr (an offset into the pixmap),
\* page, col, bit and px_col.
RECURSIVE BitLoop(_, _, _)
\* for (bit = 0; bit < 8; bit++) { ... px_col >>= 1; }
BitLoop(st, luma_decay, luma_inc) ==
    IF st.bit >= 8 THEN st
    ELSE LET index == st.bit * MapWidth
             cell == st.column_ptr + index
             luma0 == Int16(st.pix[cell])
             luma1 == Int16(luma0 - luma_decay)
             luma2 == IF PixelLit(st.px_col) THEN Int16(luma1 + luma_inc) ELSE luma1
             luma3 == ClampLuma(luma2)
         IN BitLoop([st EXCEPT !.pix[cell] = U8(luma3), !.vis[cell] = @ + 1,
                               !.px_col = @ \div 2, !.bit = @ + 1],
                    luma_decay, luma_inc)

RECURSIVE ColLoop(_, _, _, _)
\* for (col = 0; col < OLED_WIDTH; col++) { px_col = vram[page][col]; ...; column_ptr++; }
ColLoop(st, vram, luma_decay, luma_inc) ==
    IF st.col >= MapWidth THEN st
    ELSE LET done == BitLoop([st EXCEPT !.px_col = vram[st.page][st.col], !.bit = 0],
                             luma_decay, luma_inc)
         IN ColLoop([done EXCEPT !.column_ptr = @ + 1, !.col = @ + 1],
                    vram, luma_decay, luma_inc)

RECURSIVE PageLoop(_, _, _, _)
\* for (page = 0; page < OLED_HEIGHT / 8; page++) { ...; column_ptr += OLED_WIDTH * 7; }
PageLoop(st, vram, luma_decay, luma_inc) ==
    IF st.page >= MapPages THEN st
    ELSE LET done == ColLoop([st EXCEPT !.col = 0], vram, luma_decay, luma_inc)
         IN PageLoop([done EXCEPT !.column_ptr = @ + MapWidth * 7, !.page = @ + 1],
                     vram, luma_decay, luma_inc)

\* ssd1306_gl_update_lumamap(ssd1306, luma_decay, luma_inc) applied to pixmap pix
update_lumamap(pix, vram, luma_decay, luma_inc) ==
    PageLoop([pix |-> pix, vis |-> [i \in DOMAIN pix |-> 0], column_ptr |-> 0,
              page |-> 0, col |-> 0, bit |-> 0, px_col |-> 0],
             vram, luma_decay, luma_inc)

Pages == 0 .. (MapPages - 1)
Cols == 0 .. (MapWidth - 1)
Rows == 0 .. (MapPages * 8 - 1)
Cells == 0 .. (MapWidth * MapPages * 8 - 1)

\* the frames the emulator hands over: blank, full, the top row of every page,
\* and a mix of 0xA5 and 0x80 columns
ZeroFrame == [p \in Pages |-> [c \in Cols |-> 0]]
OnesFrame == [p \in Pages |-> [c \in Cols |-> 255]]
TopRowFrame == [p \in Pages |-> [c \in Cols |-> 1]]
MixFrame == [p \in Pages |-> [c \in Cols |-> IF (p + c) % 2 = 0 THEN 165 ELSE 128]]
Frames == {ZeroFrame, OnesFrame, TopRowFrame, MixFrame}
Decays == {0, 85, 255}
Incs == {0, 170, 255}

UpdateLumamap(vram, luma_decay, luma_inc) ==
    LET r == update_lumamap(luma_pixmap, vram, luma_decay, luma_inc) IN
    /\ luma_pixmap' = r.pix
    /\ visits' = r.vis
    /\ arg_vram' = vram
    /\ arg_decay' = luma_decay
    /\ arg_inc' = luma_inc
    /\ streak' = IF streak > 0 /\ <<vram, luma_decay, luma_inc>> = <<arg_vram, arg_decay, arg_inc>>
                 THEN Sat(streak + 1, MaxStreak)
                 ELSE 1
    /\ lastOp' = "update"
    /\ UNCHANGED <<inputVars, geomVars>>

(* ============================ display scaling ========================== *)

\* C's integer division (b > 0): the quotient truncates toward zero
CDiv(a, b) == IF a >= 0 THEN a \div b ELSE -((-a) \div b)

\* the low 32 bits of a * b as a signed int, for 0 <= a, b <= INT32_MAX
\* (computed on 8- and 16-bit limbs so that no intermediate leaves 32 bits)
MulWrap32(a, b) ==
    LET a0 == a % 65536
        a1 == a \div 65536
        b0 == b % 65536
        b1 == b \div 65536
        p0 == a0 % 256
        p1 == a0 \div 256
        q0 == b0 % 256
        q1 == b0 \div 256
        mid == p1 * q0 + p0 * q1
        low == p0 * q0 + (mid % 256) * 256
        lo == low % 65536
        hi == ((p1 * q1) + (mid \div 256) + (low \div 65536)
                 + ((a1 * b0) % 65536) + ((a0 * b1) % 65536)) % 65536
    IN IF hi >= 32768 THEN (hi - 65536) * 65536 + lo ELSE hi * 65536 + lo

MulFits(a, b) == a = 0 \/ b <= INT32_MAX \div a

\* int * int: the product when it fits; on signed overflow (undefined) either
\* the wrapped product or a comparison done on the exact product, which then
\* exceeds every int (stood for by INT32_MAX)
IntMul(a, b) == IF MulFits(a, b) THEN {a * b} ELSE {MulWrap32(a, b), INT32_MAX}

\* the scale without if (scale < 1) scale = 1
FitScale_no_floor(screen_width, screen_height) ==
    LET scale_by_height == CDiv(screen_height, OLED_HEIGHT)
        scale_by_width == CDiv(screen_width, OLED_WIDTH)
    IN IF scale_by_height < scale_by_width THEN scale_by_height ELSE scale_by_width

\* scale = min(scale_by_height, scale_by_width); if (scale < 1) scale = 1;
FitScale(screen_width, screen_height) ==
    LET scale_by_height == CDiv(screen_height, OLED_HEIGHT)
        scale_by_width == CDiv(screen_width, OLED_WIDTH)
        scale == IF scale_by_height < scale_by_width THEN scale_by_height ELSE scale_by_width
    IN IF scale < 1 THEN 1 ELSE scale

\* the geometry before the buffer check
ScaledGeometry(screen_width, screen_height) ==
    LET scale == FitScale(screen_width, screen_height)
        scaled_width == OLED_WIDTH * scale
        scaled_height == OLED_HEIGHT * scale
    IN [scale |-> scale,
        offset_x |-> CDiv(screen_width - scaled_width, 2),
        offset_y |-> CDiv(screen_height - scaled_height, 2),
        canvas_width |-> scaled_width,
        canvas_height |-> scaled_height]

\* the fallback to no scaling
FallbackGeometry(screen_width, screen_height) ==
    [scale |-> 1,
     offset_x |-> CDiv(screen_width - OLED_WIDTH, 2),
     offset_y |-> CDiv(screen_height - OLED_HEIGHT, 2),
     canvas_width |-> OLED_WIDTH,
     canvas_height |-> OLED_HEIGHT]

\* calculate_display_scaling(screen_width, screen_height): the geometries it
\* can leave in g_ctx, one per outcome of the int product total_pixels
calculate_display_scaling(screen_width, screen_height) ==
    LET g == ScaledGeometry(screen_width, screen_height) IN
    { IF total_pixels > MAX_CANVAS_SIZE
      THEN [geom |-> FallbackGeometry(screen_width, screen_height), fellBack |-> TRUE]
      ELSE [geom |-> g, fellBack |-> FALSE]
      : total_pixels \in IntMul(g.canvas_width, g.canvas_height) }

\* the surface sizes the host reports
Sizes == {0, 50, 51, 128, 168, 256, 384, 512, 1024, 32768, 65536, INT32_MAX}

\* the host resizes the screen
Resize(w, h) ==
    /\ screen_w' = w
    /\ screen_h' = h
    /\ lastOp' = "resize"
    /\ UNCHANGED <<geom, canvas, initialized, fellBack, calc_w, calc_h, n_canvas,
                   canvas_px, n_writes, oob_writes>>
    /\ UNCHANGED <<inputVars, lumaVars>>

\* lv_color_black()
Black == <<0, 0, 0>>

\* gray_u8_to_rgb(v): lv_color_make(v, v, v)
gray_u8_to_rgb(v) == <<v, v, v>>

\* The canvas is modelled on the panel of MapWidth x MapPages * 8 source
\* pixels: a canvas of OLED_WIDTH * k by OLED_HEIGHT * k pixels has MapWidth * k
\* columns and MapPages * 8 * k rows here.
CanvasCols(g) == CDiv(g.canvas_width, OLED_WIDTH) * MapWidth
CanvasRows(g) == CDiv(g.canvas_height, OLED_HEIGHT) * MapPages * 8

\* no canvas object
NoCanvas == [w |-> 0, h |-> 0, bg |-> Black, px |-> <<>>]

\* lv_canvas_fill_bg(canvas, color, LV_OPA_COVER): every pixel becomes color
lv_canvas_fill_bg(cv, color) == [cv EXCEPT !.bg = color, !.px = <<>>]

\* lv_canvas_set_px(canvas, x, y, color, LV_OPA_COVER)
lv_canvas_set_px(cv, x, y, color) ==
    [cv EXCEPT !.px = (<<x, y>> :> color) @@ @]

\* the color of canvas pixel (x, y)
PixelAt(cv, x, y) == IF <<x, y>> \in DOMAIN cv.px THEN cv.px[<<x, y>>] ELSE cv.bg

InCanvas(cv, x, y) == x >= 0 /\ x < cv.w /\ y >= 0 /\ y < cv.h

\* create_canvas(): a canvas of canvas_width x canvas_height, filled black
create_canvas(g) ==
    lv_canvas_fill_bg([w |-> CanvasCols(g), h |-> CanvasRows(g), bg |-> Black, px |-> <<>>],
                      Black)

\* the test of g_ctx.initialized dropped: every call initializes
AlreadyInitialized_never(ctx_initialized) == FALSE

\* if (g_ctx.initialized) return;
AlreadyInitialized(ctx_initialized) == ctx_initialized

\* ssd1306_gl_init(pixel_size, win_width, win_height)
GlInit ==
    /\ lastOp' = "init"
    /\ IF AlreadyInitialized(initialized)
       THEN UNCHANGED <<geomVars, lumaVars>>
       ELSE \E r \in calculate_display_scaling(screen_w, screen_h) :
               /\ luma_pixmap' = [i \in DOMAIN luma_pixmap |-> 0]
               /\ streak' = 0
               /\ geom' = r.geom
               /\ fellBack' = r.fellBack
               /\ calc_w' = screen_w
               /\ calc_h' = screen_h
               /\ canvas' = 1
               /\ canvas_px' = create_canvas(r.geom)
               /\ n_canvas' = n_canvas + 1
               /\ initialized' = TRUE
               /\ UNCHANGED <<screen_w, screen_h, visits, arg_vram, arg_decay, arg_inc,
                              n_writes, oob_writes>>
    /\ UNCHANGED inputVars

\* ssd1306_gl_cleanup()
GlCleanup ==
    /\ lastOp' = "cleanup"
    /\ IF initialized
       THEN /\ canvas' = NULL
            /\ canvas_px' = IF canvas # NULL THEN NoCanvas ELSE canvas_px
            /\ n_canvas' = IF canvas # NULL THEN n_canvas - 1 ELSE n_canvas
            /\ initialized' = FALSE
            /\ UNCHANGED <<screen_w, screen_h, geom, fellBack, calc_w, calc_h,
                           n_writes, oob_writes>>
       ELSE UNCHANGED geomVars
    /\ UNCHANGED <<inputVars, lumaVars>>

\* the block coordinate without the scale: base + d
BlockCoord_unscaled(base, scale, d) == base + d

\* x * scale + dx, y * scale + dy
BlockCoord(base, scale, d) == base * scale + d

\* The locals of ssd1306_gl_render are kept in one record: cv (the canvas),
\* writes and oob (the lv_canvas_set_px calls made, and those outside the
\* canvas, which leave its pixels alone), y, x, dy, dx and color.
RECURSIVE DxLoop(_, _)
\* for (dx = 0; dx < scale; dx++) lv_canvas_set_px(canvas, x * scale + dx, y * scale + dy, ...)
DxLoop(st, scale) ==
    IF st.dx >= scale THEN st
    ELSE LET cx == BlockCoord(st.x, scale, st.dx)
             cy == BlockCoord(st.y, scale, st.dy)
         IN DxLoop(IF InCanvas(st.cv, cx, cy)
                   THEN [st EXCEPT !.cv = lv_canvas_set_px(@, cx, cy, st.color),
                                   !.writes = @ + 1, !.dx = @ + 1]
                   ELSE [st EXCEPT !.writes = @ + 1, !.oob = @ + 1, !.dx = @ + 1],
                   scale)

RECURSIVE DyLoop(_, _)
\* for (dy = 0; dy < scale; dy++)
DyLoop(st, scale) ==
    IF st.dy >= scale THEN st
    ELSE LET done == DxLoop([st EXCEPT !.dx = 0], scale)
         IN DyLoop([done EXCEPT !.dy = @ + 1], scale)

RECURSIVE XLoop(_, _, _)
\* for (x = 0; x < OLED_WIDTH; x++) { luminance = luma_pixmap[y * OLED_WIDTH + x]; ... }
XLoop(st, pix, scale) ==
    IF st.x >= MapWidth THEN st
    ELSE LET luminance == pix[st.y * MapWidth + st.x]
             done == DyLoop([st EXCEPT !.color = gray_u8_to_rgb(luminance), !.dy = 0], scale)
         IN XLoop([done EXCEPT !.x = @ + 1], pix, scale)

RECURSIVE YLoop(_, _, _)
\* for (y = 0; y < OLED_HEIGHT; y++)
YLoop(st, pix, scale) ==
    IF st.y >= MapPages * 8 THEN st
    ELSE LET done == XLoop([st EXCEPT !.x = 0], pix, scale)
         IN YLoop([done EXCEPT !.y = @ + 1], pix, scale)

\* the body of ssd1306_gl_render past its guard, applied to canvas cv
render(cv, pix, scale) ==
    YLoop([cv |-> lv_canvas_fill_bg(cv, Black), writes |-> 0, oob |-> 0,
           y |-> 0, x |-> 0, dy |-> 0, dx |-> 0, color |-> Black],
          pix, scale)

\* the guard dropped: render draws whatever the state
RenderAllowed_unguarded(ctx_initialized, ctx_canvas) == TRUE

\* if (!g_ctx.initialized || !g_ctx.canvas) return;
RenderAllowed(ctx_initialized, ctx_canvas) == ctx_initialized /\ ctx_canvas # NULL

\* ssd1306_gl_render(ssd1306, opacity)
Render ==
    /\ lastOp' = "render"
    /\ IF RenderAllowed(initialized, canvas)
       THEN LET r == render(canvas_px, luma_pixmap, geom.scale) IN
            /\ canvas_px' = r.cv
            /\ n_writes' = r.writes
            /\ oob_writes' = r.oob
       ELSE /\ n_writes' = 0
            /\ oob_writes' = 0
            /\ UNCHANGED canvas_px
    /\ UNCHANGED <<screen_w, screen_h, geom, canvas, initialized, fellBack, calc_w, calc_h,
                   n_canvas>>
    /\ UNCHANGED <<inputVars, lumaVars>>

(* ================================ Init ================================= *)

Init ==
    /\ key_states = [b \in Buttons |-> FALSE]
    /\ g_release_timer = NULL
    /\ timers = <<>>
    /\ emitted = <<>>
    /\ lastOp = "none"
    /\ path = "none"
    /\ arg_key = 0
    /\ sincePress = ClockCap
    /\ sinceKey = ClockCap
    /\ firstAge = ClockCap
    /\ keyed = [b \in Buttons |-> FALSE]
    /\ pressCount = [b \in Buttons |-> 0]
    /\ lastWasPress = [b \in Buttons |-> FALSE]
    /\ alternates = TRUE
    /\ luma_pixmap = [i \in Cells |-> 0]
    /\ visits = [i \in Cells |-> 0]
    /\ arg_vram = ZeroFrame
    /\ arg_decay = 0
    /\ arg_inc = 0
    /\ screen_w = 384
    /\ screen_h = 168
    /\ geom = [scale |-> 0, offset_x |-> 0, offset_y |-> 0,
               canvas_width |-> 0, canvas_height |-> 0]
    /\ canvas = NULL
    /\ initialized = FALSE
    /\ fellBack = FALSE
    /\ calc_w = -1
    /\ calc_h = -1
    /\ n_canvas = 0
    /\ canvas_px = NoCanvas
    /\ n_writes = 0
    /\ oob_writes = 0
    /\ streak = 0

NextInput ==
    \/ \E key \in Keys : KeyEvent(key)
    \/ \E t \in 1 .. MaxTimers : TimerFire(t)
    \/ Tick

SpecInput == Init /\ [][NextInput]_vars

LiveInput ==
    /\ Init
    /\ [][NextInput]_vars
    /\ WF_vars(Tick)
    /\ WF_vars(\E t \in 1 .. MaxTimers : TimerFire(t))

\* the input operations together with the engine's init and cleanup
NextInputLife == NextInput \/ GlInit \/ GlCleanup

SpecInputLife == Init /\ [][NextInputLife]_vars

\* the surface sizes of the engine runs: 384 x 168 fits scale 2, 168 x 168
\* is too narrow for anything above scale 1
EngineWidths == {168, 384}
EngineHeights == {168}
EngineFrames == {TopRowFrame}
EngineLevels == {0, 255}

NextEngine ==
    \/ \E w \in EngineWidths, h \in EngineHeights : Resize(w, h)
    \/ GlInit
    \/ GlCleanup
    \/ \E vram \in EngineFrames, luma_decay \in EngineLevels, luma_inc \in EngineLevels :
          UpdateLumamap(vram, luma_decay, luma_inc)
    \/ Render

SpecEngine == Init /\ [][NextEngine]_vars

(* ======================== claims: input debouncer ====================== *)

CountIn(seq, x) == Cardinality({i \in 1 .. Len(seq) : seq[i] = x})
AllReleased == \A b \in Buttons : ~key_states[b]

\* C1: between two consecutive firings of the release timer, the key events
\* that map to one button (the same code repeated, or its alternate code)
\* produce exactly one press signal for it, so k distinct buttons keyed give
\* k press signals, one per button.
C1_DebounceIdempotence ==
    \A b \in Buttons : pressCount[b] = (IF keyed[b] THEN 1 ELSE 0)

\* A and Up were both keyed since the last firing, A at least twice: the last
\* event is a repeat through 'z' that found A held and emitted nothing.
C1_Witness ==
    /\ lastOp = "key" /\ arg_key = 122 /\ path = "held"
    /\ keyed[4] /\ pressCount[4] = 1
    /\ keyed[0] /\ pressCount[0] = 1

\* C2: a firing of the release timer emits exactly one release signal for each
\* button Pressed at that moment and none for the others, emits no press, and
\* leaves all 6 buttons Released; no other operation emits a release signal.
C2_BatchRelease ==
    [][ /\ lastOp' = "timer" =>
            /\ \A b \in 0 .. 5 :
                  /\ CountIn(emitted', Release(b)) = (IF key_states[b] THEN 1 ELSE 0)
                  /\ CountIn(emitted', Press(b)) = 0
                  /\ ~key_states'[b]
            /\ Len(emitted') = Cardinality({b \in 0 .. 5 : key_states[b]})
        /\ lastOp' # "timer" =>
            \A i \in 1 .. Len(emitted') : emitted'[i].pressed
      ]_vars

\* a firing that released two or more buttons pressed at different times
C2_Witness ==
    /\ lastOp = "timer" /\ Len(emitted) >= 2
    /\ firstAge > sincePress
    /\ AllReleased

\* C3: a press of a Released button while the timer exists resets that one
\* timer to a full window and creates no second timer: at most one timer
\* exists in every state, and no release signal is emitted less than 100 ms
\* after the most recent press signal.
C3_RearmSemantics ==
    /\ Len(timers) <= 1
    /\ g_release_timer # NULL => g_release_timer = 1 /\ Len(timers) = 1
    /\ path = "reset" => timers[g_release_timer] = 0
    /\ (\E i \in 1 .. Len(emitted) : ~emitted[i].pressed) => sincePress >= 100

\* a press that rearmed the running timer while another button was held
C3_Witness ==
    /\ lastOp = "key" /\ path = "reset"
    /\ firstAge > 0 /\ sincePress = 0
    /\ Len(timers) = 1 /\ timers[1] = 0

\* C8: no release signal is emitted less than 100 ms after the most recent key
\* event for a mapped button, a repeat for a held button included.
C8_QuiescenceAfterLastInput ==
    (lastOp = "timer" /\ emitted # <<>>) => sinceKey >= 100

\* C9: whatever key events keep arriving, every button that becomes Pressed is
\* eventually released by a timer firing: whenever some button is Pressed, a
\* later state is the result of a timer firing that leaves every button
\* Released (the firing is the only operation that clears key_states).
C9_AutoRelease ==
    (\E b \in Buttons : key_states[b]) ~> (lastOp = "timer" /\ AllReleased)

\* a timer firing releasing B while key events kept arriving less than a
\* window before it
C9_Witness ==
    /\ lastOp = "timer" /\ CountIn(emitted, Release(5)) = 1
    /\ sinceKey < 100

\* C10: a key event whose code is none of 17, 18, 20, 19, 10, 122, 27, 120
\* emits no signal, changes no button state and neither creates nor rearms
\* the release timer.
C10_UnmappedNoOp ==
    [][ (lastOp' = "key" /\ arg_key' \notin {17, 18, 20, 19, 10, 122, 27, 120}) =>
            /\ emitted' = <<>>
            /\ key_states' = key_states
            /\ g_release_timer' = g_release_timer
            /\ timers' = timers
      ]_vars

\* an unmapped code arriving while a button is held and the timer is running
C10_Witness ==
    /\ lastOp = "key" /\ arg_key \notin {17, 18, 20, 19, 10, 122, 27, 120}
    /\ path = "unmapped"
    /\ \E b \in Buttons : key_states[b]
    /\ g_release_timer # NULL /\ timers[g_release_timer] > 0

(* ========================= claims: luminance map ======================= *)

NextLuma ==
    \E vram \in Frames, luma_decay \in Decays, luma_inc \in Incs :
        UpdateLumamap(vram, luma_decay, luma_inc)

SpecLuma == Init /\ [][NextLuma]_vars

BitOf(byte, n) == (byte \div (2 ^ n)) % 2
Clamp255(v) == IF v < 0 THEN 0 ELSE IF v > 255 THEN 255 ELSE v

\* C4: after one update call every pixel (x, y) holds
\* clamp(old - decay + (bit (y mod 8) of vram[y div 8][x] ? inc : 0), 0, 255),
\* bit 0 being the top row of the page, and every cell was written exactly
\* once by the call.
C4_IntegrateUpdate ==
    [][ lastOp' = "update" =>
          \A x \in Cols, y \in Rows :
             LET i == y * MapWidth + x
                 lit == BitOf(arg_vram'[y \div 8][x], y % 8) = 1
             IN /\ luma_pixmap'[i] =
                      Clamp255(luma_pixmap[i] - arg_decay' + (IF lit THEN arg_inc' ELSE 0))
                /\ visits'[i] = 1
      ]_vars

\* an update of the mixed frame with decay 85 and increment 255, every cell
\* written once: a lit cell saturated at 255, an unlit one faded to 170 and
\* another unlit one held at 0
C4_Witness ==
    /\ lastOp = "update" /\ arg_vram = MixFrame
    /\ arg_decay = 85 /\ arg_inc = 255
    /\ \A i \in Cells : visits[i] = 1
    /\ \E x \in Cols, y \in Rows :
          BitOf(MixFrame[y \div 8][x], y % 8) = 1 /\ luma_pixmap[y * MapWidth + x] = 255
    /\ \E x \in Cols, y \in Rows :
          BitOf(MixFrame[y \div 8][x], y % 8) = 0 /\ luma_pixmap[y * MapWidth + x] = 170
    /\ \E x \in Cols, y \in Rows :
          BitOf(MixFrame[y \div 8][x], y % 8) = 0 /\ luma_pixmap[y * MapWidth + x] = 0

\* C7 as stated: with decay = 0 and increment = 255 every cell is 255 where the
\* frame's bit is 1 and 0 where it is 0 after the call.
C7_InstantBinary ==
    (lastOp = "update" /\ arg_decay = 0 /\ arg_inc = 255) =>
        \A x \in Cols, y \in Rows :
            luma_pixmap[y * MapWidth + x] =
                (IF BitOf(arg_vram[y \div 8][x], y % 8) = 1 THEN 255 ELSE 0)

\* C7 amended: with decay = 0 and increment = 255 every cell is 255 where the
\* frame's bit is 1 and keeps its previous value where the bit is 0.
C7_LitSaturatesUnlitKept ==
    [][ (lastOp' = "update" /\ arg_decay' = 0 /\ arg_inc' = 255) =>
          \A x \in Cols, y \in Rows :
             LET i == y * MapWidth + x IN
             luma_pixmap'[i] =
                 (IF BitOf(arg_vram'[y \div 8][x], y % 8) = 1 THEN 255 ELSE luma_pixmap[i])
      ]_vars

\* a decay-0, increment-255 update of the top-row frame after which a lit cell
\* is 255 and an unlit cell still holds an earlier frame's 85
C7_Witness ==
    /\ lastOp = "update" /\ arg_decay = 0 /\ arg_inc = 255
    /\ arg_vram = TopRowFrame
    /\ luma_pixmap[0] = 255
    /\ luma_pixmap[MapWidth] = 85

(* ========================= claims: display scaling ===================== *)

NextGeom ==
    \/ \E w \in Sizes, h \in Sizes : Resize(w, h)
    \/ GlInit
    \/ GlCleanup

SpecGeom == Init /\ [][NextGeom]_vars

TruncHalf(n) == IF n >= 0 THEN n \div 2 ELSE -((-n) \div 2)
FitOf(w, h) ==
    LET m == IF h \div 64 < w \div 128 THEN h \div 64 ELSE w \div 128
    IN IF m < 1 THEN 1 ELSE m

\* C5 as stated: for every surface size the geometry left by
\* calculate_display_scaling has canvas_width * canvas_height <= 65536, and a
\* computed scale that would exceed that gives scale 1 with a 128x64 canvas.
C5_CapacityGuard ==
    /\ geom.canvas_height = 0 \/ geom.canvas_width <= 65536 \div geom.canvas_height
    /\ (calc_w >= 0 /\ FitOf(calc_w, calc_h) > 2) =>
          geom.scale = 1 /\ geom.canvas_width = 128 /\ geom.canvas_height = 64

\* C6 as stated: the computed geometry has scale >= 1, a canvas of 128*scale
\* by 64*scale, offsets (sw - canvas_width)/2 and (sh - canvas_height)/2
\* truncated toward zero, and scale = max(1, min(sh div 64, sw div 128))
\* unless the canvas of that scale exceeds 65536 pixels, when scale = 1;
\* 384x168 gives scale 2, 256x128, (64, 20); 50x50 gives scale 1 and (-39, -7).
C6_Geometry ==
    calc_w >= 0 =>
        LET s == FitOf(calc_w, calc_h)
            exceeds == 128 * s > 65536 \div (64 * s)
        IN
        /\ geom.scale >= 1
        /\ geom.canvas_width = 128 * geom.scale
        /\ geom.canvas_height = 64 * geom.scale
        /\ geom.offset_x = TruncHalf(calc_w - geom.canvas_width)
        /\ geom.offset_y = TruncHalf(calc_h - geom.canvas_height)
        /\ geom.scale = (IF exceeds THEN 1 ELSE s)
        /\ (calc_w = 384 /\ calc_h = 168) =>
              geom = [scale |-> 2, offset_x |-> 64, offset_y |-> 20,
                      canvas_width |-> 256, canvas_height |-> 128]
        /\ (calc_w = 50 /\ calc_h = 50) =>
              geom = [scale |-> 1, offset_x |-> -39, offset_y |-> -7,
                      canvas_width |-> 128, canvas_height |-> 64]

\* C6 where the int product does not overflow (scale below 512): the same
\* geometry, the fallback taken exactly when the canvas exceeds 65536 pixels;
\* from scale 512 on the scale is the computed one or 1, as the overflowing
\* product falls.
C6_GeometryWithoutOverflow ==
    calc_w >= 0 =>
        LET s == FitOf(calc_w, calc_h) IN
        /\ geom.scale >= 1
        /\ geom.canvas_width = 128 * geom.scale
        /\ geom.canvas_height = 64 * geom.scale
        /\ geom.offset_x = TruncHalf(calc_w - geom.canvas_width)
        /\ geom.offset_y = TruncHalf(calc_h - geom.canvas_height)
        /\ geom.scale = (IF fellBack THEN 1 ELSE s)
        /\ s <= 2 => ~fellBack
        /\ (s > 2 /\ s < 512) => fellBack
        /\ (calc_w = 384 /\ calc_h = 168) =>
              geom = [scale |-> 2, offset_x |-> 64, offset_y |-> 20,
                      canvas_width |-> 256, canvas_height |-> 128]
        /\ (calc_w = 50 /\ calc_h = 50) =>
              geom = [scale |-> 1, offset_x |-> -39, offset_y |-> -7,
                      canvas_width |-> 128, canvas_height |-> 64]

\* the engine initialised on a 50x50 screen: scale 1 and negative offsets
C6_Witness ==
    /\ lastOp = "init" /\ initialized
    /\ calc_w = 50 /\ calc_h = 50
    /\ geom.scale = 1 /\ geom.offset_x = -39 /\ geom.offset_y = -7

(* ===================== claims: signals per button ====================== *)

\* C17: for each button the signals sent to the emulator alternate press,
\* release, press, ... starting with a press, and in every reachable state
\* key_states[b] is true exactly when the last signal sent for b was a press.
C17_PressReleaseAlternation ==
    /\ alternates
    /\ \A b \in Buttons : key_states[b] = lastWasPress[b]

\* A press of B that finds every button Released and the timer already
\* created: the earlier press was answered by a release, and this press
\* follows it.
C17_Witness ==
    /\ lastOp = "key" /\ path = "reset" /\ emitted = <<Press(5)>>
    /\ key_states[5] /\ lastWasPress[5]
    /\ \A b \in Buttons \ {5} : ~key_states[b] /\ ~lastWasPress[b]
    /\ sinceKey = 0 /\ firstAge = 0

\* C18: in every reachable state, also after ssd1306_gl_cleanup and a new
\* init, if any button is Pressed then the release timer exists and its
\* deadline (its last restart plus 100 ms) is pending and no later than 100 ms
\* after the most recent press signal.
C18_NoStuckButton ==
    (\E b \in Buttons : key_states[b]) =>
        /\ g_release_timer # NULL
        /\ g_release_timer \in 1 .. Len(timers)
        /\ timers[g_release_timer] >= sincePress

\* A is Pressed, the engine was cleaned up 50 ms after the press, and the
\* timer is still there with 50 ms to go.
C18_Witness ==
    /\ lastOp = "cleanup" /\ ~initialized /\ canvas = NULL
    /\ key_states[4]
    /\ g_release_timer # NULL
    /\ sincePress = 50 /\ timers[g_release_timer] = 50

(* ========================== claims: the engine ========================= *)

\* C11: ssd1306_gl_init on an engine that is already initialized is a no-op:
\* it leaves the luminance map, the geometry, the canvas object and its
\* pixels and the initialized flag as they were and creates no second
\* canvas, whatever update and render calls were made since the first init.
C11_IdempotentInit ==
    [][ (lastOp' = "init" /\ initialized) =>
            /\ luma_pixmap' = luma_pixmap
            /\ geom' = geom
            /\ canvas' = canvas
            /\ canvas_px' = canvas_px
            /\ initialized' = initialized
            /\ n_canvas' = n_canvas
      ]_vars

\* An init call that found lit cells in the map and a drawn canvas: the
\* first init zeroes the map, so this one came after updates and a render.
C11_Witness ==
    /\ lastOp = "init" /\ initialized /\ n_canvas = 1
    /\ \E i \in Cells : luma_pixmap[i] = 255
    /\ \E x \in 0 .. canvas_px.w - 1, y \in 0 .. canvas_px.h - 1 :
          PixelAt(canvas_px, x, y) = gray_u8_to_rgb(255)

\* C12: after ssd1306_gl_render on an initialized engine, for every source
\* pixel (x, y) of luminance v the scale * scale canvas pixels
\* (x * scale + dx, y * scale + dy) hold the gray (v, v, v); every coordinate
\* written lies inside the canvas; and every canvas pixel was written by this
\* render after the clear to black, so none keeps an earlier frame's color.
C12_RenderCompleteness ==
    (lastOp = "render" /\ initialized /\ canvas # NULL) =>
        LET scale == geom.scale IN
        /\ \A x \in 0 .. MapWidth - 1, y \in 0 .. MapPages * 8 - 1 :
              \A dx \in 0 .. scale - 1, dy \in 0 .. scale - 1 :
                 LET v == luma_pixmap[y * MapWidth + x] IN
                 PixelAt(canvas_px, x * scale + dx, y * scale + dy) = <<v, v, v>>
        /\ oob_writes = 0
        /\ n_writes = MapWidth * MapPages * 8 * scale * scale
        /\ \A cx \in 0 .. canvas_px.w - 1, cy \in 0 .. canvas_px.h - 1 :
              <<cx, cy>> \in DOMAIN canvas_px.px

\* A render at scale 2 of a map whose top rows are lit: the 2 x 2 block of
\* source pixel (1, 8) is white and the block of (1, 9) below it is black.
C12_Witness ==
    /\ lastOp = "render" /\ initialized /\ canvas # NULL /\ geom.scale = 2
    /\ luma_pixmap[8 * MapWidth + 1] = 255 /\ luma_pixmap[9 * MapWidth + 1] = 0
    /\ \A d \in {<<2, 16>>, <<3, 16>>, <<2, 17>>, <<3, 17>>} :
          PixelAt(canvas_px, d[1], d[2]) = <<255, 255, 255>>
    /\ \A d \in {<<2, 18>>, <<3, 18>>, <<2, 19>>, <<3, 19>>} :
          PixelAt(canvas_px, d[1], d[2]) = <<0, 0, 0>>

(* ======================= claims: map convergence ======================= *)

\* ceil(a / b) for b > 0
CeilDiv(a, b) == (a + b - 1) \div b

\* C13: from any contents of the map, repeated update calls with an all-zero
\* frame, increment 0 and a constant decay d > 0 leave every cell at 0 after
\* at most ceil(255 / d) calls, and the cells stay 0 on further such calls.
C13_DecayOnlyConvergence ==
    (/\ lastOp = "update" /\ arg_vram = ZeroFrame /\ arg_inc = 0 /\ arg_decay > 0
     /\ streak >= CeilDiv(255, arg_decay)) =>
        \A i \in Cells : luma_pixmap[i] = 0

\* The third call in a row with a blank frame and decay 85.
C13_Witness ==
    /\ lastOp = "update" /\ arg_vram = ZeroFrame /\ arg_inc = 0 /\ arg_decay = 85
    /\ streak = 3
    /\ \A i \in Cells : luma_pixmap[i] = 0 /\ visits[i] = 1

\* C14: from any contents of the map, repeated update calls with an all-ones
\* frame, decay 0 and a constant increment i > 0 leave every cell at 255
\* after at most ceil(255 / i) calls, and the cells stay 255 on further such
\* calls (the addition saturates).
C14_FullBrightConvergence ==
    (/\ lastOp = "update" /\ arg_vram = OnesFrame /\ arg_decay = 0 /\ arg_inc > 0
     /\ streak >= CeilDiv(255, arg_inc)) =>
        \A i \in Cells : luma_pixmap[i] = 255

\* The second call in a row with a full frame and increment 170.
C14_Witness ==
    /\ lastOp = "update" /\ arg_vram = OnesFrame /\ arg_decay = 0 /\ arg_inc = 170
    /\ streak = 2
    /\ \A i \in Cells : luma_pixmap[i] = 255 /\ visits[i] = 1

(* ==================== claims: geometry and lifecycle =================== *)

\* C15 as stated: the geometry is recomputed whenever the surface size
\* changes, so the scale, offsets and canvas size that a render uses are
\* those calculate_display_scaling gives for the current surface size.
C15_GeometryFollowsSurface ==
    (lastOp = "render" /\ initialized /\ canvas # NULL) =>
        /\ geom \in {r.geom : r \in calculate_display_scaling(screen_w, screen_h)}
        /\ canvas_px.w = CanvasCols(geom)
        /\ canvas_px.h = CanvasRows(geom)

\* C16 as stated: for every surface whose computed scale
\* s = max(1, min(h div 64, w div 128)) is between 1 and 8,
\* calculate_display_scaling keeps scale = s and does not fall back.
C16_ScaleUpToEight ==
    (calc_w >= 0 /\ FitOf(calc_w, calc_h) >= 1 /\ FitOf(calc_w, calc_h) <= 8) =>
        /\ geom.scale = FitOf(calc_w, calc_h)
        /\ ~fellBack

\* C19: ssd1306_gl_render on an engine that is not initialized (before the
\* first init or after a cleanup) writes no pixel and changes no state;
\* ssd1306_gl_cleanup on an engine that is not initialized changes nothing;
\* after any cleanup the engine is not initialized and has no canvas, and an
\* init that follows sets it up again for the current surface with one fresh
\* black canvas.
C19_RenderGuardedByLifecycle ==
    [][ /\ (lastOp' = "render" /\ ~initialized) =>
              /\ n_writes' = 0
              /\ UNCHANGED <<canvas_px, canvas, initialized, geom, n_canvas, screen_w, screen_h>>
              /\ UNCHANGED <<lumaVars, inputVars>>
        /\ (lastOp' = "cleanup" /\ ~initialized) =>
              UNCHANGED <<geomVars, lumaVars, inputVars>>
        /\ lastOp' = "cleanup" =>
              /\ ~initialized'
              /\ canvas' = NULL
              /\ n_canvas' = 0
              /\ canvas_px'.w = 0 /\ canvas_px'.h = 0
        /\ (lastOp' = "init" /\ ~initialized) =>
              /\ initialized'
              /\ canvas' # NULL
              /\ n_canvas' = 1
              /\ geom' \in {r.geom : r \in calculate_display_scaling(screen_w, screen_h)}
              /\ canvas_px'.w = CanvasCols(geom') /\ canvas_px'.h = CanvasRows(geom')
              /\ \A x \in 0 .. canvas_px'.w - 1, y \in 0 .. canvas_px'.h - 1 :
                    PixelAt(canvas_px', x, y) = <<0, 0, 0>>
      ]_vars

\* A render call after a cleanup: the engine had been set up at scale 2 and
\* the map has lit cells, yet nothing was drawn.
C19_Witness ==
    /\ lastOp = "render" /\ ~initialized /\ canvas = NULL
    /\ calc_w >= 0 /\ geom.scale = 2
    /\ \E i \in Cells : luma_pixmap[i] = 255
    /\ n_writes = 0 /\ canvas_px.w = 0

=============================================================================
